---- MODULE Spec2Model ----
(***************************************************************************)
(* A model of gojekyll's content-ingestion layer:                          *)
(*   helpers/file.go  VisitCreatedFile, ReadFileMagic, PostfixWalk,        *)
(*                    IsNotEmpty, NewPathError, PathError,                 *)
(*                    RemoveEmptyDirectories                               *)
(*   page.go          ReadPage, pageFields.TemplateObject,                 *)
(*                    pageFields.DebugVariables, StaticPage.TemplateObject *)
(* Each function is a small state machine over its own variables; the      *)
(* specifications at the end run one function each.                        *)
(***************************************************************************)
EXTENDS Integers, Sequences, FiniteSets, TLC

\* ------------------------------------------------------------------ bounds
\* Deepest directory nesting below the walk's root.
MaxDepth == 3
\* Most entries (files and directories) below the walk's root.
MaxEntries == 4
\* Longest file handed to ReadFileMagic / ReadPage.
MaxFileLen == 5
\* Call depth at which the Go runtime gives up on a goroutine's stack.
MaxStack == 6
\* Longest relative path of a page.
MaxPathLen == 3
\* Most bytes the write routine writes.
MaxWrite == 3

VARIABLES
    \* --- PostfixWalk / RemoveEmptyDirectories
    fs,         \* the directory tree: path -> "none" | "dir" | "file"
    fs0,        \* the tree as it was when the walk was called
    stack,      \* the PostfixWalk activations, innermost last
    visited,    \* the paths walkFn was invoked on, in order
    walkRet,    \* "running", or the error the outermost PostfixWalk returned
    visitor,    \* which walkFn is being applied: "collect" | "prune"
    tolerated,  \* the failures the walk has met and passed over
    \* --- VisitCreatedFile
    vPc,        \* where VisitCreatedFile is
    created,    \* os.Create succeeded
    written,    \* what w has written to the stream
    closeFlag,  \* the local variable close
    closeCount, \* how many times f.Close() was called
    wErr,       \* what w returned
    closeErr,   \* what the explicit f.Close() returned
    vRet,       \* what VisitCreatedFile returned

    \* --- ReadFileMagic / ReadPage
    file,       \* the bytes of the file on disk
    pgPc,       \* where ReadPage is
    magic,      \* the data ReadFileMagic returned
    magicErr,   \* the err ReadFileMagic returned
    page,       \* ReadPage's result p
    pgErr,      \* ReadPage's result err
    \* --- TemplateObject
    fields,     \* the page's pageFields
    tPc,        \* where the call is
    depth,      \* activations of StaticPage.TemplateObject on the stack
    tRet,       \* the VariableMap returned
    \* --- PathError
    peArg,      \* the arguments err, op, name
    pePc,
    peRet       \* the *os.PathError returned

walkVars == <<fs, fs0, stack, visited, walkRet, visitor, tolerated>>
visitVars == <<vPc, created, written, closeFlag, closeCount, wErr, closeErr, vRet>>
pageVars == <<file, pgPc, magic, magicErr, page, pgErr>>
tmplVars == <<fields, tPc, depth, tRet>>
peVars == <<peArg, pePc, peRet>>
vars == <<walkVars, visitVars, pageVars, tmplVars, peVars>>

\* What each function leaves alone: the variables of the others.
notWalk == <<visitVars, pageVars, tmplVars, peVars>>
notVisit == <<walkVars, pageVars, tmplVars, peVars>>
notPage == <<walkVars, visitVars, tmplVars, peVars>>
notTmpl == <<walkVars, visitVars, pageVars, peVars>>
notPathError == <<walkVars, visitVars, pageVars, tmplVars>>

\* The value of Go's nil error, and of a nil pointer or interface.
Nil == "nil"

\* ================================================================ the tree
\* Entry names within one directory; ioutil.ReadDir lists them in this order.
Names == {1, 2}

\* A path is the sequence of names below the walk's root; the root is <<>>.
Nodes == UNION {[1..d -> Names] : d \in 0..MaxDepth}

Root == <<>>

Parent(n) == SubSeq(n, 1, Len(n) - 1)

\* filepath.Join(root, stat.Name())
Join(dir, name) == Append(dir, name)

IsPrefix(a, b) == Len(a) <= Len(b) /\ SubSeq(b, 1, Len(a)) = a

\* b lies strictly below a
IsBelow(a, b) == a /= b /\ IsPrefix(a, b)

RootOnly(kind) == [n \in Nodes |-> IF n = Root THEN kind ELSE "none"]

\* The places where an entry can be created in tree t.
Free(t) == {n \in Nodes \ {Root} : t[n] = "none" /\ t[Parent(n)] = "dir"}

Grow(t) == {[t EXCEPT ![n] = k] : n \in Free(t), k \in {"dir", "file"}}

RECURSIVE TreesUpTo(_)
\* Every tree of directories and regular files with at most k entries below a
\* root directory.
TreesUpTo(k) ==
    IF k = 0 THEN {RootOnly("dir")}
    ELSE LET smaller == TreesUpTo(k - 1)
         IN  smaller \cup UNION {Grow(t) : t \in smaller}

\* The trees a walk may be called on: also a root that does not exist, and a
\* root that is a regular file.
Trees == TreesUpTo(MaxEntries) \cup {RootOnly("none"), RootOnly("file")}

\* The names of the entries of directory dir in tree t.
ChildNames(t, dir) ==
    IF Len(dir) < MaxDepth THEN {c \in Names : t[Join(dir, c)] /= "none"} ELSE {}

RECURSIVE SortedSeq(_)
SortedSeq(S) ==
    IF S = {} THEN <<>>
    ELSE LET m == CHOOSE x \in S : \A y \in S : x <= y
         IN  <<m>> \o SortedSeq(S \ {m})

\* ioutil.ReadDir(dir): the entries sorted by name, each with what Lstat said.
\* The listing is taken in one step.  An entry that goes away while the real
\* listing is under way is either left out of it or still in it, and both
\* lists are ones this step gives with the removal just after or just before.
ReadDir(t, dir) ==
    IF t[dir] = "dir"
    THEN [err |-> Nil,
          files |-> LET names == SortedSeq(ChildNames(t, dir))
                    IN  [i \in 1..Len(names) |->
                            [name |-> names[i],
                             isDir |-> t[Join(dir, names[i])] = "dir"]]]
    ELSE [err |-> IF t[dir] = "none" THEN "ENOENT" ELSE "ENOTDIR", files |-> <<>>]

\* os.Stat(name)
Stat(t, name) ==
    IF t[name] = "none" THEN [err |-> "ENOENT", isDir |-> FALSE]
    ELSE [err |-> Nil, isDir |-> t[name] = "dir"]

\* os.Remove(name): the error, and the tree afterwards.
Remove(t, name) ==
    IF t[name] = "none" THEN [err |-> "ENOENT", fs |-> t]
    ELSE IF ChildNames(t, name) /= {} THEN [err |-> "ENOTEMPTY", fs |-> t]
    ELSE [err |-> Nil, fs |-> [t EXCEPT ![name] = "none"]]

\* os.IsNotExist(err)
IsNotExist(err) == err = "ENOENT"

IsNotEmptyNever(err) == FALSE

\* helpers.IsNotEmpty(err)
IsNotEmpty(err) == err = "ENOTEMPTY"


\* ============================================================= PostfixWalk
PrefixPhases == <<"visit", "children">>

\* The order of the two halves of PostfixWalk's body: first the directory is
\* listed and every subdirectory walked, then the root is stat-ed and visited.
WalkPhases == <<"children", "visit">>

PhasePc(p) == IF p = "children" THEN "readdir" ELSE "stat"

\* The activation PostfixWalk(root, walkFn) starts with.
Frame(root) ==
    [root |-> root, files |-> <<>>, ph |-> 1, pc |-> PhasePc(WalkPhases[1])]

Top == stack[Len(stack)]

SetTop(f) == [stack EXCEPT ![Len(stack)] = f]

Walking == walkRet = "running" /\ stack /= <<>>

\* The innermost activation ends its current half with err.  A non-nil error
\* is returned at once, and every caller returns it at once in turn
\* (file.go:80-82); after the last half the activation returns nil and its
\* caller goes on with its loop.
Finish(err) ==
    IF err /= Nil
    THEN stack' = <<>> /\ walkRet' = err
    ELSE IF Top.ph < Len(WalkPhases)
    THEN /\ stack' = SetTop([Top EXCEPT !.ph = Top.ph + 1,
                                       !.pc = PhasePc(WalkPhases[Top.ph + 1])])
         /\ UNCHANGED walkRet
    ELSE IF Len(stack) = 1
    THEN stack' = <<>> /\ walkRet' = Nil
    ELSE stack' = SubSeq(stack, 1, Len(stack) - 1) /\ UNCHANGED walkRet

\* file.go:77  files, err := ioutil.ReadDir(root); a failed listing is
\* treated as no children.
WalkReadDir ==
    /\ Walking /\ Top.pc = "readdir"
    /\ LET r == ReadDir(fs, Top.root)
       IN  IF r.err = Nil
           THEN /\ stack' = SetTop([Top EXCEPT !.files = r.files, !.pc = "loop"])
                /\ UNCHANGED <<walkRet, tolerated>>
           ELSE Finish(Nil) /\ tolerated' = tolerated \cup {<<"ReadDir", r.err>>}
    /\ UNCHANGED <<fs, fs0, visited, visitor>>
    /\ UNCHANGED notWalk

\* file.go:79  if stat.IsDir()
ShouldRecurse(stat) == stat.isDir

\* file.go:78-80  the next entry is a directory: PostfixWalk is called on it.
WalkLoopRecurse ==
    /\ Walking /\ Top.pc = "loop" /\ Top.files /= <<>>
    /\ ShouldRecurse(Head(Top.files))
    /\ stack' = Append(SetTop([Top EXCEPT !.files = Tail(Top.files)]),
                       Frame(Join(Top.root, Head(Top.files).name)))
    /\ UNCHANGED <<fs, fs0, visited, walkRet, visitor, tolerated>>
    /\ UNCHANGED notWalk

\* file.go:78-79  the next entry is not a directory: nothing is done with it.
WalkLoopSkip ==
    /\ Walking /\ Top.pc = "loop" /\ Top.files /= <<>>
    /\ ~ShouldRecurse(Head(Top.files))
    /\ stack' = SetTop([Top EXCEPT !.files = Tail(Top.files)])
    /\ UNCHANGED <<fs, fs0, visited, walkRet, visitor, tolerated>>
    /\ UNCHANGED notWalk

\* file.go:78-85  the loop has run out of entries.
WalkLoopEnd ==
    /\ Walking /\ Top.pc = "loop" /\ Top.files = <<>>
    /\ Finish(Nil)
    /\ UNCHANGED <<fs, fs0, visited, visitor, tolerated>>
    /\ UNCHANGED notWalk

StatErrPropagated(err) == err

\* file.go:123-128  walkFn's answer to a failed stat.
WalkFnOnStatErr(err) == IF IsNotExist(err) THEN Nil ELSE err

\* file.go:131-140  walkFn's answer to what os.Remove returned.
WalkFnOnRemoveErr(err) ==
    IF err = Nil THEN Nil
    ELSE IF IsNotExist(err) THEN Nil
    ELSE IF IsNotEmpty(err) THEN Nil
    ELSE err

\* walkFn(root, info, err) up to its return or its call of os.Remove.
\* The collecting visitor stands for any visitor that only looks and
\* returns nil.
WalkFnCalled(st) ==
    /\ visited' = Append(visited, Top.root)
    /\ tolerated' = IF visitor = "prune" /\ st.err /= Nil /\ WalkFnOnStatErr(st.err) = Nil
                    THEN tolerated \cup {<<"Stat", st.err>>} ELSE tolerated
    /\ IF visitor = "collect" THEN Finish(Nil)
       ELSE IF st.err /= Nil THEN Finish(WalkFnOnStatErr(st.err))
       ELSE IF st.isDir
       THEN stack' = SetTop([Top EXCEPT !.pc = "remove"]) /\ UNCHANGED walkRet
       ELSE Finish(Nil)

\* file.go:87-88  info, err := os.Stat(root); return walkFn(root, info, err)
WalkStat ==
    /\ Walking /\ Top.pc = "stat"
    /\ WalkFnCalled(Stat(fs, Top.root))
    /\ UNCHANGED <<fs, fs0, visitor>>
    /\ UNCHANGED notWalk

\* file.go:130-140  err := os.Remove(name) and the switch on it.
WalkRemove ==
    /\ Walking /\ Top.pc = "remove"
    /\ LET r == Remove(fs, Top.root)
       IN  /\ fs' = r.fs /\ Finish(WalkFnOnRemoveErr(r.err))
           /\ tolerated' = IF r.err /= Nil /\ WalkFnOnRemoveErr(r.err) = Nil
                           THEN tolerated \cup {<<"Remove", r.err>>} ELSE tolerated
    /\ UNCHANGED <<fs0, visited, visitor>>
    /\ UNCHANGED notWalk

\* Another process removes a file or an empty directory of the tree (the
\* root included) while the walk is running, or before its first step.
ConcurrentRemove ==
    /\ Walking
    /\ \E n \in Nodes :
          /\ fs[n] /= "none" /\ ChildNames(fs, n) = {}
          /\ fs' = [fs EXCEPT ![n] = "none"]
    /\ UNCHANGED <<fs0, stack, visited, walkRet, visitor, tolerated>>
    /\ UNCHANGED notWalk

\* os.Stat fails for a reason other than the path not existing.
WalkStatDenied ==
    /\ Walking /\ Top.pc = "stat"
    /\ WalkFnCalled([err |-> "EACCES", isDir |-> FALSE])
    /\ UNCHANGED <<fs, fs0, visitor>>
    /\ UNCHANGED notWalk

\* os.Remove fails for a reason other than not-exist and not-empty.
WalkRemoveDenied ==
    /\ Walking /\ Top.pc = "remove"
    /\ Finish(WalkFnOnRemoveErr("EACCES"))
    /\ UNCHANGED <<fs, fs0, visited, visitor, tolerated>>
    /\ UNCHANGED notWalk


\* ======================================================== VisitCreatedFile
\* Errors of os.Create, of the write routine w, and of (*os.File).Close.
CreateErrs == {"EACCES", "EISDIR"}
WriteErrs == {"EIO", "ENOSPC", "errW"}
CloseErrs == {"EIO", "EDQUOT"}

\* The bytes w may write.
WBytes == {10, 45}

\* (*os.File).Close: the first call returns what the system's close does, a
\* later call os.ErrClosed.
FileClose(count, sysErr) == IF count = 0 THEN sysErr ELSE "ErrClosed"

CloseFlagLeftSet == TRUE

\* file.go:27  close = false
CloseFlagAfterWrite == FALSE

\* file.go:14-18  f, err := os.Create(name); close := true
VisitCreate ==
    /\ vPc = "create"
    /\ \E e \in {Nil} \cup CreateErrs :
          IF e /= Nil
          THEN /\ vRet' = e /\ vPc' = "done"
               /\ UNCHANGED <<created, closeFlag>>
          ELSE /\ created' = TRUE /\ closeFlag' = TRUE /\ vPc' = "write"
               /\ UNCHANGED vRet
    /\ UNCHANGED <<written, closeCount, wErr, closeErr>>
    /\ UNCHANGED notVisit

\* file.go:24  inside w(f): one more byte goes to the stream.
VisitWriteByte ==
    /\ vPc = "write" /\ Len(written) < MaxWrite
    /\ \E b \in WBytes : written' = Append(written, b)
    /\ UNCHANGED <<vPc, created, closeFlag, closeCount, wErr, closeErr, vRet>>
    /\ UNCHANGED notVisit

\* file.go:24-27  w(f) returns: its error is returned (the deferred function
\* still runs), or close is cleared and the explicit Close is next.
VisitWriteReturn ==
    /\ vPc = "write"
    /\ \E e \in {Nil} \cup WriteErrs :
          /\ wErr' = e
          /\ IF e /= Nil
             THEN vRet' = e /\ vPc' = "deferred" /\ UNCHANGED closeFlag
             ELSE closeFlag' = CloseFlagAfterWrite /\ vPc' = "close" /\ UNCHANGED vRet
    /\ UNCHANGED <<created, written, closeCount, closeErr>>
    /\ UNCHANGED notVisit

\* file.go:28  return f.Close()
VisitClose ==
    /\ vPc = "close"
    /\ \E e \in {Nil} \cup CloseErrs :
          LET r == FileClose(closeCount, e)
          IN  closeErr' = r /\ vRet' = r
    /\ closeCount' = closeCount + 1
    /\ vPc' = "deferred"
    /\ UNCHANGED <<created, written, closeFlag, wErr>>
    /\ UNCHANGED notVisit

\* file.go:19-23  the deferred function: if close { _ = f.Close() }
VisitDeferred ==
    /\ vPc = "deferred"
    /\ closeCount' = IF closeFlag THEN closeCount + 1 ELSE closeCount
    /\ vPc' = "done"
    /\ UNCHANGED <<created, written, closeFlag, wErr, closeErr, vRet>>
    /\ UNCHANGED notVisit

\* ============================================== ReadFileMagic and ReadPage
\* The bytes files are made of: NUL, "\n", "\r", "-" and "x".
Bytes == {0, 10, 13, 45, 120}

Files == UNION {[1..n -> Bytes] : n \in 0..MaxFileLen}

OpenErrs == {"ENOENT", "EACCES"}
ReadErrs == {"EIO"}

\* file.go:61-62  data = make([]byte, 4); _, err = f.Read(data): the buffer
\* keeps its four bytes, the count read is dropped.  A read at the end of the
\* file reads nothing and returns io.EOF; a failed read reads nothing.
ReadInto4(f, readErr) ==
    [data |-> [i \in 1..4 |-> IF readErr = Nil /\ i <= Len(f) THEN f[i] ELSE 0],
     err  |-> IF readErr /= Nil THEN readErr
              ELSE IF Len(f) = 0 THEN "EOF" ELSE Nil]

KeepCR(data) == data

\* file.go:68-70  if data[3] == '\r' { data[3] = '\n' }
NormalizeCR(data) == IF data[4] = 13 THEN [data EXCEPT ![4] = 10] ELSE data

\* helpers.ReadFileMagic(name), for the file f and what open and read do.
ReadFileMagic(f, openErr, readErr) ==
    IF openErr /= Nil THEN [data |-> <<>>, err |-> openErr]
    ELSE LET r == ReadInto4(f, readErr)
         IN  [data |-> NormalizeCR(r.data),
              err  |-> IF r.err = "EOF" THEN Nil ELSE r.err]

\* "---\n"
Marker == <<45, 45, 45, 10>>

\* page.go:58-61  magic, err := helpers.ReadFileMagic(abspath)
PageSniff ==
    /\ pgPc = "sniff"
    /\ \E oe \in {Nil} \cup OpenErrs, re \in {Nil} \cup ReadErrs :
          LET r == ReadFileMagic(file, oe, re)
          IN  /\ magic' = r.data /\ magicErr' = r.err
              /\ IF r.err /= Nil
                 THEN pgErr' = r.err /\ pgPc' = "done"
                 ELSE pgPc' = "stat" /\ UNCHANGED pgErr
    /\ UNCHANGED <<file, page>>
    /\ UNCHANGED notPage

\* page.go:62-65  info, err := os.Stat(abspath)
PageStat ==
    /\ pgPc = "stat"
    /\ \E e \in {Nil, "ENOENT"} :
          IF e /= Nil
          THEN pgErr' = e /\ pgPc' = "done"
          ELSE pgPc' = "classify" /\ UNCHANGED pgErr
    /\ UNCHANGED <<file, magic, magicErr, page>>
    /\ UNCHANGED notPage

\* The nil Page.
NoPage == [kind |-> "nil"]

\* NewDynamicPage(fields): the Dynamic variant, or no page and an error.
NewDynamicPage(fails) ==
    IF fails THEN [p |-> NoPage, err |-> "errFrontMatter"]
    ELSE [p |-> [kind |-> "Dynamic", permalink |-> FALSE], err |-> Nil]

\* page.go:74-81  the variant is chosen from the magic bytes.
PageClassify ==
    /\ pgPc = "classify"
    /\ IF magic = Marker
       THEN \E fails \in BOOLEAN :
               LET r == NewDynamicPage(fails)
               IN  /\ page' = r.p /\ pgErr' = r.err
                   /\ pgPc' = IF r.err /= Nil THEN "done" ELSE "permalink"
       ELSE /\ page' = [kind |-> "Static", permalink |-> FALSE]
            /\ pgPc' = "permalink"
            /\ UNCHANGED pgErr
    /\ UNCHANGED <<file, magic, magicErr>>
    /\ UNCHANGED notPage

\* page.go:83-87  err = p.initPermalink(); p and err are returned as they are.
PagePermalink ==
    /\ pgPc = "permalink"
    /\ \E e \in {Nil, "errPermalink"} :
          /\ pgErr' = e
          /\ page' = IF e = Nil THEN [page EXCEPT !.permalink = TRUE] ELSE page
    /\ pgPc' = "done"
    /\ UNCHANGED <<file, magic, magicErr>>
    /\ UNCHANGED notPage


\* ========================================================== TemplateObject
\* Paths are sequences of these characters.
Chars == {"/", ".", "a"}

RelPaths == UNION {[1..n -> Chars] : n \in 1..MaxPathLen}

\* Front matter: a VariableMap, here with any of these keys.
MetaKeys == {"path", "caption"}
FrontMatters == UNION {[K -> {"meta"}] : K \in SUBSET MetaKeys}

\* The largest index of character c in p, 0 when there is none.
LastIndex(p, c) ==
    LET at == {i \in 1..Len(p) : p[i] = c}
    IN  IF at = {} THEN 0 ELSE CHOOSE i \in at : \A j \in at : j <= i

RECURSIVE StripSlashes(_)
StripSlashes(p) ==
    IF p /= <<>> /\ p[Len(p)] = "/" THEN StripSlashes(SubSeq(p, 1, Len(p) - 1))
    ELSE p

\* path.Base
Base(p) ==
    IF p = <<>> THEN <<".">>
    ELSE LET q == StripSlashes(p)
             r == SubSeq(q, LastIndex(q, "/") + 1, Len(q))
         IN  IF r = <<>> THEN <<"/">> ELSE r

\* path.Ext
Ext(p) ==
    IF LastIndex(p, ".") > LastIndex(p, "/")
    THEN SubSeq(p, LastIndex(p, "."), Len(p))
    ELSE <<>>

\* helpers.PathWithoutExtension
PathWithoutExtension(name) == SubSeq(name, 1, Len(name) - Len(Ext(name)))

StructuralKeys == {"path", "modified_time", "name", "basename", "extname"}

\* page.go:92-106  (p *pageFields) TemplateObject()
PageFieldsTemplateObject(f) ==
    LET relpath == <<"/">> \o f.relpath
        base == Base(relpath)
        ext == Ext(relpath)
    IN  [k \in StructuralKeys |->
            CASE k = "path" -> relpath
              [] k = "modified_time" -> f.modTime
              [] k = "name" -> base
              [] k = "basename" -> PathWithoutExtension(base)
              [] k = "extname" -> ext]

\* The VariableMap with no keys.
EmptyMap == [k \in {} |-> "meta"]

\* page.go:133-134  (page *StaticPage) TemplateObject() is entered.  Its body
\* evaluates page.frontMatter and then page.TemplateObject(), and for a
\* *StaticPage that selector is this same method (it shadows the one promoted
\* from pageFields): every activation calls the method again before it can
\* call MergeVariableMaps.
StaticTemplateObjectCall ==
    /\ tPc \in {"idle", "static"}
    /\ depth < MaxStack
    /\ depth' = depth + 1
    /\ tPc' = "static"
    /\ UNCHANGED <<fields, tRet>>
    /\ UNCHANGED notTmpl

\* The goroutine's stack has reached its limit: the runtime ends the program
\* with "fatal error: stack overflow".
StaticTemplateObjectOverflow ==
    /\ tPc = "static"
    /\ depth = MaxStack
    /\ tPc' = "fatal"
    /\ UNCHANGED <<fields, depth, tRet>>
    /\ UNCHANGED notTmpl

\* page.go:110-112  (p *pageFields) DebugVariables()
DebugVariables ==
    /\ tPc = "idle"
    /\ tRet' = PageFieldsTemplateObject(fields)
    /\ tPc' = "returned"
    /\ UNCHANGED <<fields, depth>>
    /\ UNCHANGED notTmpl

\* =============================================================== PathError
Ops == {"read", "write", "remove"}
PathNames == {"a.md", "b.html", "_site"}

NilErr == [kind |-> "nil"]
PlainErrs == {[kind |-> "errorString", text |-> t] : t \in {"EOF", "unexpected"}}

\* file.go:100-102  NewPathError(op, name, text)
NewPathError(op, name, text) ==
    [kind |-> "PathError", Op |-> op, Path |-> name,
     Err |-> [kind |-> "errorString", text |-> text]]

StructuredErrs == {NewPathError(op, name, "no such file") : op \in Ops, name \in PathNames}

\* file.go:107-117  PathError(err, op, name)
PathError(err, op, name) ==
    IF err = NilErr THEN NilErr
    ELSE IF err.kind = "PathError" THEN err
    ELSE [kind |-> "PathError", Op |-> "read", Path |-> name, Err |-> err]

PathErrorCall ==
    /\ pePc = "call"
    /\ peRet' = PathError(peArg.err, peArg.op, peArg.name)
    /\ pePc' = "returned"
    /\ UNCHANGED peArg
    /\ UNCHANGED notPathError

\* =========================================================== specifications
IdleWalk ==
    /\ fs = RootOnly("none") /\ fs0 = RootOnly("none")
    /\ stack = <<>> /\ visited = <<>> /\ walkRet = Nil /\ visitor = "collect"
    /\ tolerated = {}

IdleVisit ==
    /\ vPc = "done" /\ created = FALSE /\ written = <<>> /\ closeFlag = FALSE
    /\ closeCount = 0 /\ wErr = Nil /\ closeErr = Nil /\ vRet = Nil

IdlePage ==
    /\ file = <<>> /\ pgPc = "done" /\ magic = <<>> /\ magicErr = Nil
    /\ page = NoPage /\ pgErr = Nil

IdleTmpl ==
    /\ fields = [relpath |-> <<"a">>, modTime |-> 1, frontMatter |-> EmptyMap]
    /\ tPc = "returned" /\ depth = 0 /\ tRet = EmptyMap

IdlePathError ==
    /\ peArg = [err |-> NilErr, op |-> "read", name |-> "a.md"]
    /\ pePc = "returned" /\ peRet = NilErr

\* PostfixWalk(root, walkFn) has just been called on some tree, with a
\* collecting visitor or with RemoveEmptyDirectories' walkFn (file.go:144).
InitWalk ==
    /\ fs \in Trees /\ fs0 = fs
    /\ stack = <<Frame(Root)>> /\ visited = <<>> /\ walkRet = "running"
    /\ visitor \in {"collect", "prune"} /\ tolerated = {}
    /\ IdleVisit /\ IdlePage /\ IdleTmpl /\ IdlePathError

NextWalk ==
    \/ WalkReadDir \/ WalkLoopRecurse \/ WalkLoopSkip \/ WalkLoopEnd
    \/ WalkStat \/ WalkRemove

\* A walk with nothing else touching the tree.
SpecWalk == InitWalk /\ [][NextWalk]_vars

NextRace == NextWalk \/ ConcurrentRemove

\* RemoveEmptyDirectories(root) has just been called.
InitPrune == InitWalk /\ visitor = "prune"

\* RemoveEmptyDirectories while another process removes entries of the tree.
SpecRace == InitPrune /\ [][NextRace]_vars

NextDenied == NextWalk \/ WalkStatDenied \/ WalkRemoveDenied

\* A walk on a tree where stat and remove may be refused.
SpecDenied == InitWalk /\ [][NextDenied]_vars

InitVisit ==
    /\ vPc = "create" /\ created = FALSE /\ written = <<>> /\ closeFlag = FALSE
    /\ closeCount = 0 /\ wErr = Nil /\ closeErr = Nil /\ vRet = "running"
    /\ IdleWalk /\ IdlePage /\ IdleTmpl /\ IdlePathError

NextVisit ==
    VisitCreate \/ VisitWriteByte \/ VisitWriteReturn \/ VisitClose \/ VisitDeferred

SpecVisit == InitVisit /\ [][NextVisit]_vars

InitPage ==
    /\ file \in Files /\ pgPc = "sniff" /\ magic = <<>> /\ magicErr = Nil
    /\ page = NoPage /\ pgErr = Nil
    /\ IdleWalk /\ IdleVisit /\ IdleTmpl /\ IdlePathError

NextPage == PageSniff \/ PageStat \/ PageClassify \/ PagePermalink

SpecPage == InitPage /\ [][NextPage]_vars

InitTmpl ==
    /\ fields \in [relpath : RelPaths, modTime : {1, 2}, frontMatter : FrontMatters]
    /\ tPc = "idle" /\ depth = 0 /\ tRet = EmptyMap
    /\ IdleWalk /\ IdleVisit /\ IdlePage /\ IdlePathError

NextTmpl ==
    StaticTemplateObjectCall \/ StaticTemplateObjectOverflow \/ DebugVariables

SpecTmpl == InitTmpl /\ [][NextTmpl]_vars

InitPathError ==
    /\ peArg \in [err : {NilErr} \cup PlainErrs \cup StructuredErrs,
                  op : Ops, name : PathNames]
    /\ pePc = "call" /\ peRet = NilErr
    /\ IdleWalk /\ IdleVisit /\ IdlePage /\ IdleTmpl

NextPathError == PathErrorCall

SpecPathError == InitPathError /\ [][NextPathError]_vars


\* The walk with its steps taken as long as one is possible: the code runs
\* on until it returns.
SpecWalkFair == InitWalk /\ [][NextWalk]_vars /\ WF_vars(NextWalk)

\* ================================================================== claims
\* The paths walkFn has been invoked on.
Visited == {visited[i] : i \in 1..Len(visited)}

\* Tree t holds a regular file at n or below it.
HasFile(t, n) == \E m \in Nodes : IsPrefix(n, m) /\ t[m] = "file"

\* C1: when os.Create succeeded, VisitCreatedFile closes the stream exactly
\* once on every exit path; it returns w's error when w fails, and the
\* result of the one explicit Close when w succeeds.
C1_ClosedExactlyOnce ==
    /\ closeCount <= 1
    /\ (vPc = "done" /\ created) => closeCount = 1
    /\ (vPc = "done" /\ created /\ wErr /= Nil) => vRet = wErr
    /\ (vPc = "done" /\ created /\ wErr = Nil) =>
          vRet = closeErr /\ closeErr \in {Nil} \cup CloseErrs

\* C1: w wrote something and failed, and VisitCreatedFile has returned.
C1_Witness ==
    /\ vPc = "done" /\ created /\ written /= <<>>
    /\ wErr /= Nil /\ vRet = wErr /\ closeCount = 1

\* C2: PostfixWalk invokes the visitor on every directory below D before it
\* invokes it on D, on each directory exactly once, and on the root last.
C2_PostOrder ==
    /\ \A i, j \in 1..Len(visited) :
          /\ IsBelow(visited[i], visited[j]) => j < i
          /\ i /= j => visited[i] /= visited[j]
    /\ walkRet /= "running" =>
          /\ \A d \in Nodes : fs0[d] = "dir" => d \in Visited
          /\ visited /= <<>> /\ visited[Len(visited)] = Root

\* C2: a walk with the collecting visitor has returned from a tree nested
\* three directories deep.
C2_Witness ==
    /\ visitor = "collect" /\ walkRet = Nil
    /\ \E d \in Nodes : Len(d) = 3 /\ fs0[d] = "dir" /\ d \in Visited
    /\ \E d \in Nodes : Len(d) = 1 /\ fs0[d] = "dir" /\ ~IsPrefix(d, visited[1])

\* What RemoveEmptyDirectories leaves of the tree it was called on.
C3_Pruned ==
    (visitor = "prune" /\ walkRet /= "running") =>
        /\ walkRet = Nil
        /\ \A n \in Nodes :
              fs[n] = IF fs0[n] = "dir" /\ ~HasFile(fs0, n) THEN "none" ELSE fs0[n]

\* C3: with nothing else touching the tree, RemoveEmptyDirectories returns,
\* with no error, having removed exactly the directories that hold no regular
\* file at any depth; every other directory and every file is left in place.
C3_RemovesAllAndOnlyEmpty == [](C3_Pruned) /\ <>(walkRet /= "running")

\* C3: the pruning has returned having removed a directory and kept a
\* sibling that holds a file.
C3_Witness ==
    /\ visitor = "prune" /\ walkRet = Nil
    /\ \E a, b \in Nodes :
          /\ Len(a) = 1 /\ Len(b) = 1
          /\ fs0[a] = "dir" /\ fs[a] = "none"
          /\ fs0[b] = "dir" /\ fs[b] = "dir"
    /\ <<"Remove", "ENOTEMPTY">> \in tolerated

\* C4: while another process removes entries of the tree, the root included,
\* RemoveEmptyDirectories never returns an error.
C4_NoErrorUnderRemoval == visitor = "prune" => walkRet \in {"running", Nil}

\* C4: the pruning has returned nil after a listing failed, a stat found the
\* path gone and a removal found the directory gone.
C4_Witness ==
    /\ visitor = "prune" /\ walkRet = Nil
    /\ <<"ReadDir", "ENOENT">> \in tolerated
    /\ <<"Stat", "ENOENT">> \in tolerated
    /\ <<"Remove", "ENOENT">> \in tolerated

\* The first four bytes of f are "---" and a line feed or a carriage return.
HasMarker(f) ==
    /\ Len(f) >= 4
    /\ f[1] = 45 /\ f[2] = 45 /\ f[3] = 45
    /\ f[4] \in {10, 13}

\* C5: the page ReadPage makes is Dynamic exactly when the file's first four
\* bytes, a carriage return in the fourth taken as a line feed, are "---\n",
\* and Static for every other file, the files shorter than four bytes
\* included; a ReadPage that returns no error returns one of the two.
C5_DynamicIffMarker ==
    /\ page.kind = "Dynamic" => HasMarker(file)
    /\ page.kind = "Static" => ~HasMarker(file)
    /\ (pgPc = "permalink" \/ (pgPc = "done" /\ pgErr = Nil)) =>
          page.kind = IF HasMarker(file) THEN "Dynamic" ELSE "Static"

\* C5: ReadPage has returned a Dynamic page for a five-byte file that starts
\* "---\r".
C5_Witness ==
    /\ pgPc = "done" /\ pgErr = Nil /\ page.kind = "Dynamic"
    /\ Len(file) = 5 /\ file[4] = 13

\* C6: ReadPage returns either an error and no page, or a page and no error,
\* and a page only after initPermalink has succeeded on it.
C6_AllOrNothing ==
    pgPc = "done" =>
        /\ pgErr /= Nil => page = NoPage
        /\ page /= NoPage => pgErr = Nil /\ page.permalink

\* C7: for a file of n < 4 bytes ReadFileMagic returns the file's n bytes and
\* no more; for a longer file the first four bytes, a carriage return in the
\* fourth rewritten to a line feed.
C7_MagicKeepsByteCount ==
    (pgPc /= "sniff" /\ magicErr = Nil) =>
        magic = IF Len(file) < 4 THEN file
                ELSE [i \in 1..4 |-> IF i = 4 /\ file[i] = 13 THEN 10 ELSE file[i]]

\* C8: a call of StaticPage.TemplateObject comes to an end (it does not run
\* the stack out) and what it returns holds the five structural keys with
\* their structural values and every other front-matter key.
C8_StaticTemplateObjectReturns ==
    /\ tPc /= "fatal"
    /\ (depth > 0 /\ tPc = "returned") =>
          /\ \A k \in StructuralKeys :
                k \in DOMAIN tRet /\ tRet[k] = PageFieldsTemplateObject(fields)[k]
          /\ \A k \in DOMAIN fields.frontMatter : k \in DOMAIN tRet

\* C9: after a walk with no error the visitor has been handed every entry of
\* the tree, regular files as well as directories, and the root.
C9_EveryEntryVisited ==
    walkRet = Nil => \A n \in Nodes : fs0[n] /= "none" => n \in Visited

\* C10: for an err that is not nil and not a *os.PathError, PathError returns
\* a *os.PathError with the op, the name and the err it was given.
C10_WrapsWithGivenOp ==
    (pePc = "returned" /\ peArg.err.kind = "errorString") =>
        peRet = [kind |-> "PathError", Op |-> peArg.op,
                 Path |-> peArg.name, Err |-> peArg.err]

====
